---- MODULE Spec2Model ----
(***************************************************************************)
(* A model of glados-tts: the sentence pacing engine tts_runner.speak      *)
(* (src/glados.py), the interactive loop that drives it, the text          *)
(* preparation facade (src/utils/tools.py) and the tokenizer over the      *)
(* symbol vocabulary (src/utils/text/tokenizer.py, symbols.py).            *)
(*                                                                         *)
(* Time is counted in milliseconds.  The external collaborators (the mel   *)
(* model and the vocoder inside run_tts, nltk's sent_tokenize, the audio   *)
(* player processes, time.sleep) are modelled by what speak() observes of  *)
(* them: the number of sentences, the duration of the audio a synthesis    *)
(* returns, the wall-clock time each call takes, and whether it raises.    *)
(* A player program is assumed to be installed, so speak_one_line always   *)
(* manages to start one.                                                   *)
(***************************************************************************)
EXTENDS Integers, Sequences, FiniteSets, TLC

VARIABLES
    self,        \* the tts_runner object: log, emb, device, glados, vocoder
    loop,        \* "none": speak is called by library code; else __main__'s position
    pc,          \* position inside speak()
    sentences,   \* sent_tokenize(text): sentence k is identified by k
    delay,       \* speak's delay parameter, in ms
    idx,         \* index of the sentence being handled (0-based, as in the code)
    audio,       \* the whole-utterance AudioSegment
    old_line,    \* the two alternating buffers
    new_line,
    old_time,    \* time.time() taken right after the last playback launch
    old_dur,     \* duration of the segment launched last
    new_dur,     \* duration of the segment synthesized last
    time_left,   \* the budget computed at lines 122 and 137
    now,         \* the wall clock, time.time()
    raised,      \* the exception speak() ended with, or "none"
    loads,       \* number of Phonemizer.from_checkpoint calls made so far
    played,      \* history: the playbacks launched in this call
    synths,      \* history: the run_tts calls of this call
    sleeps,      \* history: the durations requested from time.sleep in this call
    paces,       \* history: time_left at each budget check of line 122
    printed,     \* history: the log lines speak() printed in this call
    first,       \* tokenizer round trip: the string it started from
    text,        \* the string being processed: by the tokenizer, or by the cleaning passes
    tokens,      \* the IDs Tokenizer.__call__ returned
    decoded,     \* the string Tokenizer.decode returned
    pass,        \* 1 or 2: the round trip under way; the passes done by normalize_numbers
    tpc,         \* position of the round trip; "off" while the engine is modelled
    files,       \* the condition of each file under models_dir
    probes,      \* what torch.cuda.is_available and torch.is_vulkan_available answer
    args,        \* the arguments tts_runner was called with
    cpc,         \* position inside __init__; "off" once the engine is taken as built
    warm,        \* the i of the warm-up loop
    exc          \* the exception __init__ ended with, or "none"

enginevars == <<self, loop, pc, sentences, delay, idx, audio, old_line,
                new_line, old_time, old_dur, new_dur, time_left, now, raised,
                loads, played, synths, sleeps, paces, printed>>

tokvars == <<first, text, tokens, decoded, pass, tpc>>

ctorvars == <<files, probes, args, cpc, warm, exc>>

vars == <<enginevars, tokvars, ctorvars>>

(***************************************************************************)
(* Bounds of the model.                                                    *)
(***************************************************************************)
MaxSentences == 3
MaxLoads == 3
MaxLen == 3
MaxAmount == 4
MaxText == 3

\* Audio durations a synthesis may return, and the time a synthesis may take.
Durs == {200, 400}
SynthTimes == {100, 201, 700}
\* Time between the player being spawned and the next time.time() reading.
LaunchTimes == {0, 5}
\* time.sleep may suspend longer than requested.
Oversleeps == {0, 10}
\* Time audio.export("output.wav") may take.
ExportTimes == {0, 500}
Delays == {0, 100}

(***************************************************************************)
(* Program constants.                                                      *)
(***************************************************************************)
DefaultDelay == 100
LeadSilence == 1
SingleLinePause == 100
SlowerThanRealtime == "Processing is slower than realtime!"

NoLine == [src |-> <<>>, dur |-> 0]

\* The tag of silent audio; the audio of sentence k is tagged k >= 0.
Silence == -1

\* AudioSegment.silent(duration=ms)
Silent(ms) == [src |-> <<Silence>>, dur |-> ms]

\* AudioSegment.__add__
Concat(a, b) == [src |-> a.src \o b.src, dur |-> a.dur + b.dur]

\* pause = AudioSegment.silent(duration=delay): pydub takes the duration in
\* milliseconds, and delay is a number of seconds.
Pause(d) == Silent(d \div 1000)

Engines ==
    [log : BOOLEAN, emb : {"glados_p2.pt"}, device : {"cuda", "cpu"},
     glados : {"glados-new.pt"}, vocoder : {"vocoder-gpu.pt"}]

\* The locals of a speak() call that has just been entered with a text of n
\* sentences and the given delay.
Enter(n, d) ==
    /\ sentences' = [k \in 1..n |-> k - 1]
    /\ delay' = d
    /\ idx' = 0
    /\ audio' = NoLine
    /\ old_line' = NoLine
    /\ new_line' = NoLine
    /\ old_time' = 0
    /\ old_dur' = 0
    /\ new_dur' = 0
    /\ time_left' = 0
    /\ now' = 0
    /\ played' = <<>>
    /\ synths' = <<>>
    /\ sleeps' = <<>>
    /\ paces' = <<>>
    /\ printed' = <<>>
    \* sentences[0] of an empty list
    /\ IF n = 0
       THEN pc' = "raised" /\ raised' = "IndexError"
       ELSE pc' = "run_tts" /\ raised' = "none"

\* No speak() call has been made yet.
EngineIdle ==
    /\ pc = "idle"
    /\ sentences = <<>>
    /\ delay = DefaultDelay
    /\ idx = 0
    /\ audio = NoLine
    /\ old_line = NoLine
    /\ new_line = NoLine
    /\ old_time = 0
    /\ old_dur = 0
    /\ new_dur = 0
    /\ time_left = 0
    /\ now = 0
    /\ raised = "none"
    /\ loads = 0
    /\ played = <<>>
    /\ synths = <<>>
    /\ sleeps = <<>>
    /\ paces = <<>>
    /\ printed = <<>>

\* No tokenizer round trip is under way.
TokOff ==
    /\ first = <<>>
    /\ text = <<>>
    /\ tokens = <<>>
    /\ decoded = <<>>
    /\ pass = 1
    /\ tpc = "off"

\* The files under models_dir and the conditions a file may be in.
Files ==
    {"emb/glados_p1.pt", "emb/glados_p2.pt", "glados-new.pt", "vocoder-gpu.pt",
     "en_us_cmudict_ipa_forward.pt"}

Conditions == {"absent", "corrupt", "good"}

\* The constructor is not under way: it is taken to have run as
\* tts_runner(False, True) with every file in place.
CtorOff ==
    /\ files = [f \in Files |-> "good"]
    /\ probes = [cuda |-> FALSE, vulkan |-> FALSE]
    /\ args = [use_p1 |-> FALSE, log |-> TRUE]
    /\ cpc = "off"
    /\ warm = 0
    /\ exc = "none"

\* The engine tts_runner(False, True) that __main__ builds.
MainEngine ==
    [log |-> TRUE, emb |-> "glados_p2.pt", device |-> "cpu",
     glados |-> "glados-new.pt", vocoder |-> "vocoder-gpu.pt"]

Init ==
    /\ self \in Engines
    /\ loop \in {"none", "input"}
    /\ loop = "input" => self = MainEngine
    /\ EngineIdle
    /\ TokOff
    /\ CtorOff

\* Lines 28-49 leave an engine with its log flag, the embedding of the chosen
\* variant (use_p1 is left at its default), the device found and both models.
\* A caller other than __main__ calls speak(text, delay=d); it may do so again
\* after a call returned or raised.
Speak ==
    /\ loop = "none"
    /\ pc \in {"idle", "returned", "raised"}
    /\ \E n \in 0..MaxSentences, d \in Delays :
          loads + n <= MaxLoads /\ Enter(n, d)
    /\ UNCHANGED <<self, loop, loads>>
    /\ UNCHANGED <<tokvars, ctorvars>>

\* time.sleep(arg), after which speak() goes on at position next: a negative
\* argument raises ValueError, and the suspension may last longer than asked.
Sleep(arg, next) ==
    /\ sleeps' = Append(sleeps, arg)
    /\ IF arg < 0
       THEN now' = now /\ pc' = "raised" /\ raised' = "ValueError"
       ELSE /\ \E o \in Oversleeps : now' = now + arg + o
            /\ pc' = next
            /\ raised' = raised

\* speak_one_line(line, name): the player is spawned on the exported file and
\* runs on its own; control returns at once.
speak_one_line(line, name) ==
    played' = Append(played, [line |-> line, file |-> name, at |-> now])

\* run_tts is entered: prepare_text builds a Cleaner, whose constructor loads
\* the phonemizer checkpoint (use_phonemes defaults to True).
RunTtsBegin ==
    /\ pc = "run_tts"
    /\ loads' = loads + 1
    /\ synths' = Append(synths, [of |-> sentences[idx + 1], begin |-> now, end |-> -1])
    /\ pc' = "in_tts"
    /\ UNCHANGED <<self, loop, sentences, delay, idx, audio, old_line, new_line,
                   old_time, old_dur, new_dur, time_left, now, raised,
                   played, sleeps, paces, printed>>
    /\ UNCHANGED <<tokvars, ctorvars>>

\* The buffer that receives sentence i, and that is played for it.
UsesNewLine(i) == i % 2 = 1

\* run_tts returns the audio of sentences[idx] (lines 105, 115-117, 119-121).
RunTtsReturn ==
    /\ pc = "in_tts"
    /\ \E d \in Durs, t \in SynthTimes :
         LET line == [src |-> <<sentences[idx + 1]>>, dur |-> d] IN
           /\ now' = now + t
           /\ synths' = [synths EXCEPT ![Len(synths)].end = now + t]
           /\ IF idx = 0
              THEN /\ audio' = line
                   /\ pc' = "first_line"
                   /\ UNCHANGED <<old_line, new_line, new_dur>>
              ELSE /\ audio' = Concat(Concat(audio, Pause(delay)), line)
                   /\ new_dur' = line.dur
                   /\ pc' = "pace"
                   /\ IF UsesNewLine(idx)
                      THEN new_line' = line /\ old_line' = old_line
                      ELSE old_line' = line /\ new_line' = new_line
    /\ UNCHANGED <<self, loop, sentences, delay, idx, old_time, old_dur,
                   time_left, raised, loads, played, sleeps, paces, printed>>
    /\ UNCHANGED <<tokvars, ctorvars>>

\* The failure is caught inside speak(), which goes on with the budget check.
RunTtsRaise_swallowed ==
    /\ pc = "in_tts"
    /\ \E t \in SynthTimes : now' = now + t
    /\ pc' = IF idx = 0 THEN "first_line" ELSE "pace"
    /\ raised' = "SynthesisFailure"
    /\ UNCHANGED <<self, loop, sentences, delay, idx, audio, old_line, new_line,
                   old_time, old_dur, new_dur, time_left, loads,
                   played, synths, sleeps, paces, printed>>
    /\ UNCHANGED <<tokvars, ctorvars>>

\* run_tts raises (prepare_text or one of the models fails): speak() has no
\* handler, so the exception leaves speak().
RunTtsRaise ==
    /\ pc = "in_tts"
    /\ \E t \in SynthTimes : now' = now + t
    /\ pc' = "raised"
    /\ raised' = "SynthesisFailure"
    /\ UNCHANGED <<self, loop, sentences, delay, idx, audio, old_line, new_line,
                   old_time, old_dur, new_dur, time_left, loads,
                   played, synths, sleeps, paces, printed>>
    /\ UNCHANGED <<tokvars, ctorvars>>

\* Lines 106-111: the first sentence is played behind a short lead silence.
FirstLine ==
    /\ pc = "first_line"
    /\ LET line == Concat(Silent(LeadSilence), audio) IN
         /\ old_line' = line
         /\ speak_one_line(line, "old_line.wav")
         /\ \E l \in LaunchTimes : now' = now + l
         /\ old_time' = now'
         /\ old_dur' = line.dur
         /\ new_dur' = line.dur
    /\ IF Len(sentences) > 1
       THEN idx' = 1 /\ pc' = "run_tts"
       ELSE idx' = idx /\ pc' = "single"
    /\ UNCHANGED <<self, loop, sentences, delay, audio, new_line, time_left,
                   raised, loads, synths, sleeps, paces, printed>>
    /\ UNCHANGED <<tokvars, ctorvars>>

\* The budget taken from the duration of the sentence just synthesized.
TimeLeft_of_new_line == new_dur - now + old_time

\* old_dur - time.time() + old_time
TimeLeft == old_dur - now + old_time

\* The pacing sleep without the pause.
PaceSleep_without_pause(left) == left

\* The argument of the pacing sleep of line 126.
PaceSleep(left) == left + delay

\* Lines 122-126: the real-time budget check.
Pace ==
    /\ pc = "pace"
    /\ time_left' = TimeLeft
    /\ paces' = Append(paces, TimeLeft)
    /\ IF TimeLeft <= 0 /\ self.log
       THEN /\ printed' = Append(printed, SlowerThanRealtime)
            /\ pc' = "launch"
            /\ UNCHANGED <<now, raised, sleeps>>
       ELSE /\ Sleep(PaceSleep(TimeLeft), "launch")
            /\ printed' = printed
    /\ UNCHANGED <<self, loop, sentences, delay, idx, audio, old_line, new_line,
                   old_time, old_dur, new_dur, loads, played, synths>>
    /\ UNCHANGED <<tokvars, ctorvars>>

\* Lines 127-132: the sentence just synthesized is played from its buffer.
Launch ==
    /\ pc = "launch"
    /\ IF UsesNewLine(idx)
       THEN speak_one_line(new_line, "new_line.wav")
       ELSE speak_one_line(old_line, "old_line.wav")
    /\ \E l \in LaunchTimes : now' = now + l
    /\ old_time' = now'
    /\ old_dur' = new_dur
    /\ idx' = idx + 1
    /\ pc' = IF idx + 1 < Len(sentences) THEN "run_tts" ELSE "export"
    /\ UNCHANGED <<self, loop, sentences, delay, audio, old_line, new_line,
                   new_dur, time_left, raised, loads, synths, sleeps, paces,
                   printed>>
    /\ UNCHANGED <<tokvars, ctorvars>>

\* Line 134: a one-sentence utterance is waited out with a fixed pause.
Single ==
    /\ pc = "single"
    /\ Sleep(old_dur + SingleLinePause, "export")
    /\ UNCHANGED <<self, loop, sentences, delay, idx, audio, old_line, new_line,
                   old_time, old_dur, new_dur, time_left, loads,
                   played, synths, paces, printed>>
    /\ UNCHANGED <<tokvars, ctorvars>>

\* Line 136: the whole utterance is written to output.wav.
Export ==
    /\ pc = "export"
    /\ \E e \in ExportTimes : now' = now + e
    /\ pc' = "drain"
    /\ UNCHANGED <<self, loop, sentences, delay, idx, audio, old_line, new_line,
                   old_time, old_dur, new_dur, time_left, raised, loads,
                   played, synths, sleeps, paces, printed>>
    /\ UNCHANGED <<tokvars, ctorvars>>

\* The final sleep lasting the pause alone.
DrainSleep_pause_only(left) == delay

\* The argument of the final sleep of line 139.
DrainSleep(left) == left + delay

\* Lines 137-139: the last sentence is waited out, and speak() returns.
Drain ==
    /\ pc = "drain"
    /\ time_left' = TimeLeft
    /\ IF TimeLeft >= 0
       THEN Sleep(DrainSleep(TimeLeft), "returned")
       ELSE pc' = "returned" /\ UNCHANGED <<now, raised, sleeps>>
    /\ UNCHANGED <<self, loop, sentences, delay, idx, audio, old_line, new_line,
                   old_time, old_dur, new_dur, loads, played, synths, paces,
                   printed>>
    /\ UNCHANGED <<tokvars, ctorvars>>

(***************************************************************************)
(* __main__: glados = tts_runner(False, True), then the read-eval loop.    *)
(***************************************************************************)

\* text = input("Input: "); if len(text) > 0: glados.speak(text, True).
\* A line is empty, or splits into n sentences (none when it is blank).
Input ==
    /\ loop = "input"
    /\ \E empty \in BOOLEAN, n \in 0..MaxSentences :
         IF empty
         THEN UNCHANGED <<loop, pc, sentences, delay, idx, audio, old_line,
                          new_line, old_time, old_dur, new_dur, time_left, now,
                          raised, played, synths, sleeps, paces, printed>>
         ELSE /\ loads + n <= MaxLoads
              /\ Enter(n, DefaultDelay)
              /\ loop' = "speak"
    /\ UNCHANGED <<self, loads>>
    /\ UNCHANGED <<tokvars, ctorvars>>

\* speak() returned: the loop goes back to input().
MainNext ==
    /\ loop = "speak"
    /\ pc = "returned"
    /\ loop' = "input"
    /\ pc' = "idle"
    /\ UNCHANGED <<self, sentences, delay, idx, audio, old_line, new_line,
                   old_time, old_dur, new_dur, time_left, now, raised, loads,
                   played, synths, sleeps, paces, printed>>
    /\ UNCHANGED <<tokvars, ctorvars>>

\* speak() raised: nothing in the loop catches it, the interpreter prints the
\* traceback and the process ends.
MainUncaught ==
    /\ loop = "speak"
    /\ pc = "raised"
    /\ loop' = "exited"
    /\ UNCHANGED <<self, pc, sentences, delay, idx, audio, old_line, new_line,
                   old_time, old_dur, new_dur, time_left, now, raised, loads,
                   played, synths, sleeps, paces, printed>>
    /\ UNCHANGED <<tokvars, ctorvars>>

Next ==
    \/ Speak
    \/ RunTtsBegin
    \/ RunTtsReturn
    \/ RunTtsRaise
    \/ FirstLine
    \/ Pace
    \/ Launch
    \/ Single
    \/ Export
    \/ Drain
    \/ Input
    \/ MainNext
    \/ MainUncaught

Spec == Init /\ [][Next]_vars

(***************************************************************************)
(* The symbol vocabulary (symbols.py) and the tokenizer (tokenizer.py).    *)
(* A character is its Unicode code point and a string is the sequence of   *)
(* its characters; the string literals below are the characters the source *)
(* file holds, in order.                                                   *)
(***************************************************************************)

\* _pad
pad ==
    <<95>>

\* _punctuation
punctuation ==
    <<33, 39, 40, 41, 44, 46, 58, 59, 63, 32>>

\* _special
special ==
    <<45>>

\* _vowels
vowels ==
    <<105, 121, 8230, 174, 160, 268, 8230, 302, 117, 8230, 8482, 160,
      377, 160, 228, 101, 8730, 322, 8230, 279, 8230, 244, 8230, 310,
      8230, 167, 111, 8230, 245, 327, 271, 8230, 250, 8230, 283, 160,
      262, 8230, 274, 8730, 182, 8230, 378, 97, 8230, 8706, 8230, 270,
      8230, 237, 352, 310, 317>>

\* _non_pulmonic_consonants
non_pulmonic_consonants ==
    <<160, 279, 8230, 271, 171, 196, 8230, 243, 171, 201, 160, 260, 171,
      257, 8230, 8224, 171, 256, 160, 245>>

\* _pulmonic_consonants
pulmonic_consonants ==
    <<112, 98, 116, 100, 160, 261, 8230, 278, 99, 8230, 252, 107, 8230,
      176, 113, 8230, 280, 160, 274, 8230, 299, 327, 269, 8230, 8804,
      8230, 8805, 110, 8230, 298, 109, 160, 244, 114, 160, 196, 8218,
      298, 298, 8230, 314, 8230, 313, 8230, 322, 337, 8804, 102, 118,
      337, 322, 8730, 303, 115, 122, 160, 201, 160, 237, 160, 257, 160,
      378, 8730, 223, 160, 282, 120, 8230, 163, 332, 225, 160, 256, 324,
      223, 160, 275, 104, 8230, 182, 8230, 168, 8230, 291, 160, 269,
      8230, 315, 8230, 317, 106, 8230, 303, 108, 8230, 8800, 160, 233,
      160, 252>>

\* _suprasegmentals
suprasegmentals ==
    <<328, 261, 328, 262, 328, 378, 328, 270>>

\* _other_symbols
other_symbols ==
    <<160, 263, 119, 8230, 8226, 160, 250, 160, 280, 160, 176, 8230,
      275, 160, 270, 8230, 316, 8230, 223>>

\* _diacritics
diacritics ==
    <<8230, 246, 328, 283, 8230, 281>>

\* _extra_phonemes: a list of strings
extra_phonemes ==
    <<<<103>>, <<8230, 282>>, <<336, 201>>, <<336, 263>>, <<336, 8226>>,
      <<336, 169>>, <<336, 302>>, <<213, 176>>>>

\* list(s): the one-character strings of s
List(s) == [i \in 1..Len(s) |-> <<s[i]>>]

\* Lines 25-28 of symbols.py.
phonemes ==
    List(pad \o punctuation \o special \o vowels \o non_pulmonic_consonants
         \o pulmonic_consonants \o suprasegmentals \o other_symbols
         \o diacritics) \o extra_phonemes

\* The ID that enumerate(phonemes) gives the occurrence of s that the dict
\* comprehension processes last: a later occurrence of a symbol replaces the
\* ID of an earlier one.
LastId(s) ==
    (CHOOSE i \in 1..Len(phonemes) :
        /\ phonemes[i] = s
        /\ \A j \in (i + 1)..Len(phonemes) : phonemes[j] # s) - 1

\* The table with IDs counted from 1 instead of 0.
symbol_to_id_from_one ==
    [s \in {phonemes[i] : i \in 1..Len(phonemes)} |-> LastId(s) + 1]

\* Tokenizer.symbol_to_id = {s: i for i, s in enumerate(phonemes)}
symbol_to_id == [s \in {phonemes[i] : i \in 1..Len(phonemes)} |-> LastId(s)]

\* Tokenizer.id_to_symbol = {i: s for i, s in enumerate(phonemes)}
id_to_symbol == [i \in 0..(Len(phonemes) - 1) |-> phonemes[i + 1]]

RECURSIVE encode(_)
\* Tokenizer.__call__: [symbol_to_id[t] for t in text if t in symbol_to_id]
encode(t) ==
    IF t = <<>> THEN <<>>
    ELSE (IF <<Head(t)>> \in DOMAIN symbol_to_id
          THEN <<symbol_to_id[<<Head(t)>>]>> ELSE <<>>) \o encode(Tail(t))

RECURSIVE decode(_)
\* Tokenizer.decode: ''.join(id_to_symbol[s] for s in sequence if s in id_to_symbol)
decode(sequence) ==
    IF sequence = <<>> THEN <<>>
    ELSE (IF Head(sequence) \in DOMAIN id_to_symbol
          THEN id_to_symbol[Head(sequence)] ELSE <<>>) \o decode(Tail(sequence))

\* Characters the round-trip strings are made of: '_', 'a', '.', ' ', the
\* character 8230 that the vocabulary lists many times, and 'A', '3', '@',
\* which it does not list.
Alphabet == {95, 97, 46, 32, 8230, 65, 51, 64}

Texts == UNION {[1..n -> Alphabet] : n \in 0..MaxLen}

\* Any string is about to be tokenized.
InitTok ==
    /\ self = MainEngine
    /\ loop = "none"
    /\ EngineIdle
    /\ CtorOff
    /\ first \in Texts
    /\ text = first
    /\ tokens = <<>>
    /\ decoded = <<>>
    /\ pass = 1
    /\ tpc = "text"

\* tokens = tokenizer(text)
Encode ==
    /\ tpc = "text"
    /\ tokens' = encode(text)
    /\ tpc' = "tokens"
    /\ UNCHANGED <<first, text, decoded, pass>>
    /\ UNCHANGED <<enginevars, ctorvars>>

\* tokenizer.decode(tokens)
Decode ==
    /\ tpc = "tokens"
    /\ decoded' = decode(tokens)
    /\ tpc' = "decoded"
    /\ UNCHANGED <<first, text, tokens, pass>>
    /\ UNCHANGED <<enginevars, ctorvars>>

\* The decoded string is put through the tokenizer a second time.
Again ==
    /\ tpc = "decoded"
    /\ pass = 1
    /\ text' = decoded
    /\ pass' = 2
    /\ tpc' = "text"
    /\ UNCHANGED <<first, tokens, decoded>>
    /\ UNCHANGED <<enginevars, ctorvars>>

NextTok ==
    \/ Encode
    \/ Decode
    \/ Again

SpecTok == InitTok /\ [][NextTok]_vars

(***************************************************************************)
(* Number normalization (numbers.py).  Here a string is the sequence of    *)
(* its characters, each written as a one-character string.                 *)
(***************************************************************************)

DigitChars == <<"0", "1", "2", "3", "4", "5", "6", "7", "8", "9">>

\* [0-9]
Digits == {DigitChars[k] : k \in 1..10}

LowerCase ==
    {"a", "b", "c", "d", "e", "f", "g", "h", "i", "j", "k", "l", "m", "n",
     "o", "p", "q", "r", "s", "t", "u", "v", "w", "x", "y", "z"}

UpperCase ==
    {"A", "B", "C", "D", "E", "F", "G", "H", "I", "J", "K", "L", "M", "N",
     "O", "P", "Q", "R", "S", "T", "U", "V", "W", "X", "Y", "Z"}

\* \w
WordChars == LowerCase \cup UpperCase \cup Digits \cup {"_"}

\* \b between positions i-1 and i of t
Boundary(t, i) ==
    (i > 1 /\ i - 1 <= Len(t) /\ t[i - 1] \in WordChars)
        # (i >= 1 /\ i <= Len(t) /\ t[i] \in WordChars)

RECURSIVE RunEnd(_, _, _)
\* The last position of the longest run of characters of S that starts at
\* position i of t (i - 1 when t[i] is not in S): a greedy S*.
RunEnd(t, i, S) ==
    IF i <= Len(t) /\ t[i] \in S THEN RunEnd(t, i + 1, S) ELSE i - 1

\* The last position in lo..hi of t that holds a character of S, or 0.
LastIn(t, lo, hi, S) ==
    LET c == {e \in lo..hi : t[e] \in S}
    IN  IF c = {} THEN 0 ELSE CHOOSE e \in c : \A f \in c : f <= e

\* s.replace(c, '')
Without(s, c) == SelectSeq(s, LAMBDA x : x # c)

RECURSIVE Replace(_, _, _)
\* s.replace(c, r), c a character
Replace(s, c, r) ==
    IF s = <<>> THEN <<>>
    ELSE (IF Head(s) = c THEN r ELSE <<Head(s)>>) \o Replace(Tail(s), c, r)

RECURSIVE Split(_, _)
\* s.split(c)
Split(s, c) ==
    LET k == LastIn(s, 1, Len(s), {c})
    IN  IF k = 0 THEN <<s>>
        ELSE Split(SubSeq(s, 1, k - 1), c) \o <<SubSeq(s, k + 1, Len(s))>>

\* int(s) raises ValueError on anything but a non-empty run of digits.
IsInt(s) == s # <<>> /\ \A k \in 1..Len(s) : s[k] \in Digits

RECURSIVE ToInt(_)
\* int(s)
ToInt(s) ==
    IF s = <<>> THEN 0
    ELSE 10 * ToInt(SubSeq(s, 1, Len(s) - 1))
         + (CHOOSE n \in 0..9 : DigitChars[n + 1] = s[Len(s)])

RECURSIVE ToStr(_)
\* str(n), n >= 0
ToStr(n) ==
    IF n < 10 THEN <<DigitChars[n + 1]>>
    ELSE ToStr(n \div 10) \o <<DigitChars[(n % 10) + 1]>>

(***************************************************************************)
(* inflect.engine().number_to_words, the library call of _expand_number    *)
(* and _expand_ordinal, for numbers below 10^9: its English wording, with  *)
(* andword between the hundreds and the rest.                              *)
(***************************************************************************)
Ones ==
    << <<"z", "e", "r", "o">>,
       <<"o", "n", "e">>,
       <<"t", "w", "o">>,
       <<"t", "h", "r", "e", "e">>,
       <<"f", "o", "u", "r">>,
       <<"f", "i", "v", "e">>,
       <<"s", "i", "x">>,
       <<"s", "e", "v", "e", "n">>,
       <<"e", "i", "g", "h", "t">>,
       <<"n", "i", "n", "e">>,
       <<"t", "e", "n">>,
       <<"e", "l", "e", "v", "e", "n">>,
       <<"t", "w", "e", "l", "v", "e">>,
       <<"t", "h", "i", "r", "t", "e", "e", "n">>,
       <<"f", "o", "u", "r", "t", "e", "e", "n">>,
       <<"f", "i", "f", "t", "e", "e", "n">>,
       <<"s", "i", "x", "t", "e", "e", "n">>,
       <<"s", "e", "v", "e", "n", "t", "e", "e", "n">>,
       <<"e", "i", "g", "h", "t", "e", "e", "n">>,
       <<"n", "i", "n", "e", "t", "e", "e", "n">> >>

Tens ==
    << <<"t", "w", "e", "n", "t", "y">>,
       <<"t", "h", "i", "r", "t", "y">>,
       <<"f", "o", "r", "t", "y">>,
       <<"f", "i", "f", "t", "y">>,
       <<"s", "i", "x", "t", "y">>,
       <<"s", "e", "v", "e", "n", "t", "y">>,
       <<"e", "i", "g", "h", "t", "y">>,
       <<"n", "i", "n", "e", "t", "y">> >>

Below100(n) ==
    IF n < 20 THEN Ones[n + 1]
    ELSE Tens[(n \div 10) - 1]
         \o (IF n % 10 = 0 THEN <<>> ELSE <<"-">> \o Ones[(n % 10) + 1])

\* The joint before the last part of a number: " and " or, without andword, " ".
Joint(andword) == IF andword = <<>> THEN <<" ">> ELSE <<" ">> \o andword \o <<" ">>

Below1000(n, andword) ==
    IF n < 100 THEN Below100(n)
    ELSE Ones[(n \div 100) + 1] \o <<" ", "h", "u", "n", "d", "r", "e", "d">>
         \o (IF n % 100 = 0 THEN <<>> ELSE Joint(andword) \o Below100(n % 100))

\* The thousands and the words of the rest, and likewise the millions.
Grouped(n, unit, name, rest, andword) ==
    Below1000(n \div unit, andword) \o name
    \o (IF n % unit = 0 THEN <<>>
        ELSE (IF n % unit < 100 THEN Joint(andword) ELSE <<",", " ">>)
             \o rest)

number_to_words(n, andword) ==
    LET upto3(m) == Below1000(m, andword)
        upto6(m) == IF m < 1000 THEN upto3(m)
                    ELSE Grouped(m, 1000, <<" ", "t", "h", "o", "u", "s", "a", "n", "d">>,
                                 upto3(m % 1000), andword)
    IN  IF n < 1000000 THEN upto6(n)
        ELSE Grouped(n, 1000000, <<" ", "m", "i", "l", "l", "i", "o", "n">>,
                     upto6(n % 1000000), andword)

\* The ordinal of a number word: first, second, third, fifth, eighth, ninth,
\* twelfth, -ieth for -y, and -th otherwise.
OrdinalOf(w) ==
    CASE w = <<"o", "n", "e">> -> <<"f", "i", "r", "s", "t">>
      [] w = <<"t", "w", "o">> -> <<"s", "e", "c", "o", "n", "d">>
      [] w = <<"t", "h", "r", "e", "e">> -> <<"t", "h", "i", "r", "d">>
      [] w = <<"f", "i", "v", "e">> -> <<"f", "i", "f", "t", "h">>
      [] w = <<"e", "i", "g", "h", "t">> -> <<"e", "i", "g", "h", "t", "h">>
      [] w = <<"n", "i", "n", "e">> -> <<"n", "i", "n", "t", "h">>
      [] w = <<"t", "w", "e", "l", "v", "e">> -> <<"t", "w", "e", "l", "f", "t", "h">>
      [] OTHER -> IF w[Len(w)] = "y"
                  THEN SubSeq(w, 1, Len(w) - 1) \o <<"i", "e", "t", "h">>
                  ELSE w \o <<"t", "h">>

\* number_to_words of a string such as "21st": the words of the number, the
\* last of them made ordinal.
ordinal_to_words(n) ==
    LET w == number_to_words(n, <<"a", "n", "d">>)
        k == LastIn(w, 1, Len(w), {" ", "-"})
    IN  SubSeq(w, 1, k) \o OrdinalOf(SubSeq(w, k + 1, Len(w)))

(***************************************************************************)
(* The six passes of normalize_numbers.  A pass is re.sub(pattern, expand, *)
(* text): the matches are taken leftmost first, each as long as the greedy *)
(* pattern allows, and the text between them is kept.                      *)
(***************************************************************************)

\* The two characters before the amount in _pounds_re, by their code points.
PoundPrefix == <<"0xC2", "0xA3">>

\* The end of the match of _comma_number_re = ([0-9][0-9,]+[0-9]) at i, or 0.
CommaNumberEnd(t, i) ==
    IF t[i] \notin Digits THEN 0
    ELSE LastIn(t, i + 2, RunEnd(t, i + 1, Digits \cup {","}), Digits)

\* The end of the match of _pounds_re = <prefix>([0-9,]*[0-9]+) at i, or 0.
PoundsEnd(t, i) ==
    IF i + 1 > Len(t) \/ SubSeq(t, i, i + 1) # PoundPrefix THEN 0
    ELSE LastIn(t, i + 2, RunEnd(t, i + 2, Digits \cup {","}), Digits)

\* The end of the match of _dollars_re = \$([0-9.,]*[0-9]+) at i, or 0.
DollarsEnd(t, i) ==
    IF t[i] # "$" THEN 0
    ELSE LastIn(t, i + 1, RunEnd(t, i + 1, Digits \cup {".", ","}), Digits)

\* The end of the match of _decimal_number_re = ([0-9]+\.[0-9]+) at i, or 0.
DecimalEnd(t, i) ==
    LET a == RunEnd(t, i, Digits)
    IN  IF a >= i /\ a + 2 <= Len(t) /\ t[a + 1] = "." /\ t[a + 2] \in Digits
        THEN RunEnd(t, a + 2, Digits) ELSE 0

OrdinalSuffixes == {<<"s", "t">>, <<"n", "d">>, <<"r", "d">>, <<"t", "h">>}

\* The end of the match of _ordinal_re = \b([0-9]+)(st|nd|rd|th)\b at i, or 0.
OrdinalEnd(t, i) ==
    LET a == RunEnd(t, i, Digits)
    IN  IF /\ a >= i
           /\ Boundary(t, i)
           /\ a + 2 <= Len(t)
           /\ SubSeq(t, a + 1, a + 2) \in OrdinalSuffixes
           /\ Boundary(t, a + 3)
        THEN a + 2 ELSE 0

\* The end of the match of _number_re = \b[0-9]+\b at i, or 0.
NumberEnd(t, i) ==
    LET a == RunEnd(t, i, Digits)
    IN  IF a >= i /\ Boundary(t, i) /\ Boundary(t, a + 1) THEN a ELSE 0

MatchEnd(kind, t, i) ==
    CASE kind = "commas" -> CommaNumberEnd(t, i)
      [] kind = "pounds" -> PoundsEnd(t, i)
      [] kind = "dollars" -> DollarsEnd(t, i)
      [] kind = "decimal" -> DecimalEnd(t, i)
      [] kind = "ordinal" -> OrdinalEnd(t, i)
      [] kind = "number" -> NumberEnd(t, i)

\* _remove_commas
remove_commas(m) == Without(m, ",")

\* _expand_decimal_point
expand_decimal_point(m) == Replace(m, ".", <<" ", "p", "o", "i", "n", "t", " ">>)

\* 'dollar' if dollars == 1 else 'dollars'
DollarUnit(dollars) == IF dollars = 1 THEN <<"d", "o", "l", "l", "a", "r">> ELSE <<"d", "o", "l", "l", "a", "r", "s">>

\* The cent unit in the plural whatever the count.
CentUnit_plural(cents) == <<"c", "e", "n", "t", "s">>

\* 'cent' if cents == 1 else 'cents'
CentUnit(cents) == IF cents = 1 THEN <<"c", "e", "n", "t">> ELSE <<"c", "e", "n", "t", "s">>

\* parts = match.replace(',', '').split('.')
DollarParts(match) == Split(Without(match, ","), ".")

\* _expand_dollars raises when int() is given something that is no number.
expand_dollars_raises(match) ==
    LET parts == DollarParts(match)
    IN  /\ Len(parts) <= 2
        /\ \/ parts[1] # <<>> /\ ~IsInt(parts[1])
           \/ Len(parts) > 1 /\ parts[2] # <<>> /\ ~IsInt(parts[2])

\* _expand_dollars, match being m.group(1)
expand_dollars(match) ==
    LET parts == DollarParts(match)
        dollars == IF parts[1] # <<>> THEN ToInt(parts[1]) ELSE 0
        cents == IF Len(parts) > 1 /\ parts[2] # <<>> THEN ToInt(parts[2]) ELSE 0
    IN  IF Len(parts) > 2 THEN match \o <<" ", "d", "o", "l", "l", "a", "r", "s">>
        ELSE IF dollars # 0 /\ cents # 0
        THEN ToStr(dollars) \o <<" ">> \o DollarUnit(dollars) \o <<",", " ">>
             \o ToStr(cents) \o <<" ">> \o CentUnit(cents)
        ELSE IF dollars # 0
        THEN ToStr(dollars) \o <<" ">> \o DollarUnit(dollars)
        ELSE IF cents # 0
        THEN ToStr(cents) \o <<" ">> \o CentUnit(cents)
        ELSE <<"z", "e", "r", "o", " ", "d", "o", "l", "l", "a", "r", "s">>

\* _expand_pounds, amount being m.group(1)
expand_pounds(amount) ==
    LET number == ToInt(Without(amount, ","))
    IN  ToStr(number) \o <<" ">> \o (IF number = 1 THEN <<"p", "o", "u", "n", "d">> ELSE <<"p", "o", "u", "n", "d", "s">>)

\* _expand_ordinal
expand_ordinal(m) == ordinal_to_words(ToInt(SubSeq(m, 1, Len(m) - 2)))

\* _expand_number
expand_number(m) == number_to_words(ToInt(m), <<>>)

\* The replacement of the match m of a pass.
Expand(kind, m) ==
    CASE kind = "commas" -> remove_commas(m)
      [] kind = "pounds" -> expand_pounds(SubSeq(m, 3, Len(m)))
      [] kind = "dollars" -> expand_dollars(Tail(m))
      [] kind = "decimal" -> expand_decimal_point(m)
      [] kind = "ordinal" -> expand_ordinal(m)
      [] kind = "number" -> expand_number(m)

\* The replacement function of a pass raises on the match m.
ExpandRaises(kind, m) ==
    CASE kind = "dollars" -> expand_dollars_raises(Tail(m))
      [] kind = "pounds" -> ~IsInt(Without(SubSeq(m, 3, Len(m)), ","))
      [] kind = "ordinal" -> FALSE
      [] kind = "number" -> ~IsInt(m)
      [] OTHER -> FALSE

RECURSIVE Sub(_, _, _)
\* re.sub of the pass over t from position i on.
Sub(kind, t, i) ==
    IF i > Len(t) THEN <<>>
    ELSE LET e == MatchEnd(kind, t, i)
         IN  IF e > 0 THEN Expand(kind, SubSeq(t, i, e)) \o Sub(kind, t, e + 1)
             ELSE <<t[i]>> \o Sub(kind, t, i + 1)

RECURSIVE SubRaises(_, _, _)
\* Some match of the pass over t from position i on makes its replacement raise.
SubRaises(kind, t, i) ==
    IF i > Len(t) THEN FALSE
    ELSE LET e == MatchEnd(kind, t, i)
         IN  IF e > 0
             THEN ExpandRaises(kind, SubSeq(t, i, e)) \/ SubRaises(kind, t, e + 1)
             ELSE SubRaises(kind, t, i + 1)

\* The passes of normalize_numbers, in the order of lines 88-93.
Passes == <<"commas", "pounds", "dollars", "decimal", "ordinal", "number">>

RECURSIVE NormalizeFrom(_, _)
\* The passes from the k-th on, applied to t.
NormalizeFrom(t, k) ==
    IF k > Len(Passes) THEN t ELSE NormalizeFrom(Sub(Passes[k], t, 1), k + 1)

\* normalize_numbers(text)
normalize_numbers(t) == NormalizeFrom(t, 1)

RECURSIVE NormalizeRaisesFrom(_, _)
NormalizeRaisesFrom(t, k) ==
    /\ k <= Len(Passes)
    /\ \/ SubRaises(Passes[k], t, 1)
       \/ NormalizeRaisesFrom(Sub(Passes[k], t, 1), k + 1)

\* normalize_numbers(text) raises
normalize_numbers_raises(t) == NormalizeRaisesFrom(t, 1)

(***************************************************************************)
(* normalize_numbers pass by pass, on a text made of a '$' and an amount.  *)
(* step counts the passes done.                                            *)
(***************************************************************************)
AmountChars == {"0", "1", "5", ".", ","}

Amounts == UNION {[1..n -> AmountChars] : n \in 0..MaxAmount}

InitNum ==
    /\ self = MainEngine
    /\ loop = "none"
    /\ EngineIdle
    /\ CtorOff
    /\ \E a \in Amounts : first = <<"$">> \o a
    /\ text = first
    /\ tokens = <<>>
    /\ decoded = <<>>
    /\ pass = 0
    /\ tpc = "normalize"

\* One pass of normalize_numbers (one of lines 88-93); the last one returns.
NumberPass ==
    /\ tpc = "normalize"
    /\ IF SubRaises(Passes[pass + 1], text, 1)
       THEN tpc' = "raised" /\ UNCHANGED <<text, pass>>
       ELSE /\ text' = Sub(Passes[pass + 1], text, 1)
            /\ pass' = pass + 1
            /\ tpc' = IF pass + 1 = Len(Passes) THEN "normalized" ELSE "normalize"
    /\ UNCHANGED <<first, tokens, decoded>>
    /\ UNCHANGED <<enginevars, ctorvars>>

NextNum == NumberPass

SpecNum == InitNum /\ [][NextNum]_vars

(***************************************************************************)
(* prepare_text (tools.py) with the english cleaner and use_phonemes       *)
(* False: the terminal period, then Cleaner.__call__, which is             *)
(* english_cleaners (unidecode, normalize_numbers, expand_abbreviations)   *)
(* and collapse_whitespace, then the tokenizer.  Strings are sequences of  *)
(* characters; a character that is not written as itself is named by its   *)
(* code point.                                                             *)
(***************************************************************************)
\* The printable ASCII characters, from the space (code point 32) on.
Ascii ==
    <<" ", "!", "0x22", "#", "$", "%", "&", "'", "(", ")", "*", "+",
      ",", "-", ".", "/", "0", "1", "2", "3", "4", "5", "6", "7",
      "8", "9", ":", ";", "<", "=", ">", "?", "@", "A", "B", "C",
      "D", "E", "F", "G", "H", "I", "J", "K", "L", "M", "N", "O",
      "P", "Q", "R", "S", "T", "U", "V", "W", "X", "Y", "Z", "[",
      "0x5C", "]", "^", "_", "0x60", "a", "b", "c", "d", "e", "f", "g",
      "h", "i", "j", "k", "l", "m", "n", "o", "p", "q", "r", "s",
      "t", "u", "v", "w", "x", "y", "z", "{", "|", "}", "~">>

\* ord(c) of a printable ASCII character.
ord(c) == CHOOSE k \in 32..126 : Ascii[k - 31] = c

LowerLetters == <<"a", "b", "c", "d", "e", "f", "g", "h", "i", "j", "k", "l", "m", "n", "o", "p", "q", "r", "s", "t", "u", "v", "w", "x", "y", "z">>

UpperLetters == <<"A", "B", "C", "D", "E", "F", "G", "H", "I", "J", "K", "L", "M", "N", "O", "P", "Q", "R", "S", "T", "U", "V", "W", "X", "Y", "Z">>

\* c.lower() of an ASCII character: what re.IGNORECASE compares.
lower(c) ==
    IF c \in UpperCase
    THEN LowerLetters[CHOOSE k \in 1..Len(UpperLetters) : UpperLetters[k] = c]
    ELSE c

\* unidecode of one character: ASCII is kept, and of the other characters
\* those that the inputs below hold: e acute, A circumflex, the pound sign.
unidecode_char(c) ==
    CASE c = "0xE9" -> <<"e">>
      [] c = "0xC2" -> <<"A">>
      [] c = "0xA3" -> <<"P", "S">>
      [] OTHER -> <<c>>

RECURSIVE unidecode(_)
unidecode(t) ==
    IF t = <<>> THEN <<>> ELSE unidecode_char(Head(t)) \o unidecode(Tail(t))

\* _abbreviations: the abbreviation and its full form, in the order of the list.
Abbreviations ==
    <<<<<<"m", "r", "s">>, <<"m", "i", "s", "s", "e", "s">>>>,
      <<<<"m", "r">>, <<"m", "i", "s", "t", "e", "r">>>>,
      <<<<"d", "r">>, <<"d", "o", "c", "t", "o", "r">>>>,
      <<<<"s", "t">>, <<"s", "a", "i", "n", "t">>>>,
      <<<<"c", "o">>, <<"c", "o", "m", "p", "a", "n", "y">>>>,
      <<<<"j", "r">>, <<"j", "u", "n", "i", "o", "r">>>>,
      <<<<"m", "a", "j">>, <<"m", "a", "j", "o", "r">>>>,
      <<<<"g", "e", "n">>, <<"g", "e", "n", "e", "r", "a", "l">>>>,
      <<<<"d", "r", "s">>, <<"d", "o", "c", "t", "o", "r", "s">>>>,
      <<<<"r", "e", "v">>, <<"r", "e", "v", "e", "r", "e", "n", "d">>>>,
      <<<<"l", "t">>, <<"l", "i", "e", "u", "t", "e", "n", "a", "n", "t">>>>,
      <<<<"h", "o", "n">>, <<"h", "o", "n", "o", "r", "a", "b", "l", "e">>>>,
      <<<<"s", "g", "t">>, <<"s", "e", "r", "g", "e", "a", "n", "t">>>>,
      <<<<"c", "a", "p", "t">>, <<"c", "a", "p", "t", "a", "i", "n">>>>,
      <<<<"e", "s", "q">>, <<"e", "s", "q", "u", "i", "r", "e">>>>,
      <<<<"l", "t", "d">>, <<"l", "i", "m", "i", "t", "e", "d">>>>,
      <<<<"c", "o", "l">>, <<"c", "o", "l", "o", "n", "e", "l">>>>,
      <<<<"f", "t">>, <<"f", "o", "r", "t">>>>>>

\* The end of the match of \babbrev\. (IGNORECASE) at position i of t, or 0.
AbbreviationEnd(abbrev, t, i) ==
    LET e == i + Len(abbrev)
    IN  IF /\ Boundary(t, i)
           /\ e <= Len(t)
           /\ [k \in 1..Len(abbrev) |-> lower(t[i + k - 1])] = abbrev
           /\ t[e] = "."
        THEN e ELSE 0

RECURSIVE SubAbbreviation(_, _, _)
\* regex.sub(replacement, text) for the pair ab, over t from position i on.
SubAbbreviation(ab, t, i) ==
    IF i > Len(t) THEN <<>>
    ELSE LET e == AbbreviationEnd(ab[1], t, i)
         IN  IF e > 0 THEN ab[2] \o SubAbbreviation(ab, t, e + 1)
             ELSE <<t[i]>> \o SubAbbreviation(ab, t, i + 1)

RECURSIVE ExpandFrom(_, _)
\* The loop of expand_abbreviations from the k-th pair on.
ExpandFrom(k, t) ==
    IF k > Len(Abbreviations) THEN t
    ELSE ExpandFrom(k + 1, SubAbbreviation(Abbreviations[k], t, 1))

expand_abbreviations(t) == ExpandFrom(1, t)

\* \s, as far as the inputs below hold it: the space and the line feed.
Whitespace == {" ", "0x0A"}

RECURSIVE SubWhitespace(_, _)
\* _whitespace_re.sub(' ', text) over t from position i on.
SubWhitespace(t, i) ==
    IF i > Len(t) THEN <<>>
    ELSE IF t[i] \in Whitespace
         THEN <<" ">> \o SubWhitespace(t, RunEnd(t, i, Whitespace) + 1)
         ELSE <<t[i]>> \o SubWhitespace(t, i + 1)

\* str.strip()
strip(t) ==
    LET ink == {k \in 1..Len(t) : t[k] \notin Whitespace}
    IN  IF ink = {} THEN <<>>
        ELSE SubSeq(t, CHOOSE k \in ink : \A j \in ink : k <= j,
                       CHOOSE k \in ink : \A j \in ink : j <= k)

collapse_whitespace(t) == strip(SubWhitespace(t, 1))

\* The characters of the texts given to prepare_text, and the texts.
TextChars == {"s", "t", "S", ".", "?", " ", "0x0A", "1", "0xE9"}

Inputs == UNION {[1..n -> TextChars] : n \in 0..MaxText}

InitPrep ==
    /\ self = MainEngine
    /\ loop = "none"
    /\ EngineIdle
    /\ CtorOff
    /\ first \in Inputs
    /\ text = first
    /\ tokens = <<>>
    /\ decoded = <<>>
    /\ pass = 0
    /\ tpc = "prepare"

\* tools.py lines 29-41: the empty text is refused, the terminal period is
\* appended, and the Cleaner is built (without a phonemizer).
PrepareText ==
    /\ tpc = "prepare"
    /\ IF text = <<>>
       THEN tpc' = "raised" /\ text' = text
       ELSE /\ text' = IF text[Len(text)] \in {".", "?", "!"} THEN text
                       ELSE text \o <<".">>
            /\ tpc' = "unidecode"
    /\ UNCHANGED <<first, tokens, decoded, pass>>
    /\ UNCHANGED <<enginevars, ctorvars>>

\* cleaners.py line 92; the passes of line 93 follow as NumberPass.
Unidecode ==
    /\ tpc = "unidecode"
    /\ text' = unidecode(text)
    /\ tpc' = "normalize"
    /\ UNCHANGED <<first, tokens, decoded, pass>>
    /\ UNCHANGED <<enginevars, ctorvars>>

\* cleaners.py line 94.
ExpandAbbreviations ==
    /\ tpc = "normalized"
    /\ text' = expand_abbreviations(text)
    /\ tpc' = "expanded"
    /\ UNCHANGED <<first, tokens, decoded, pass>>
    /\ UNCHANGED <<enginevars, ctorvars>>

\* cleaners.py lines 159-167 with use_phonemes False: what Cleaner.__call__
\* returns, the cleaned_text of tools.py line 43.
CollapseWhitespace ==
    /\ tpc = "expanded"
    /\ text' = collapse_whitespace(text)
    /\ tpc' = "cleaned"
    /\ UNCHANGED <<first, tokens, decoded, pass>>
    /\ UNCHANGED <<enginevars, ctorvars>>

\* tools.py lines 44-46: the tokenizer is given the cleaned text.
Tokenize ==
    /\ tpc = "cleaned"
    /\ tokens' = encode([k \in 1..Len(text) |-> ord(text[k])])
    /\ tpc' = "tokenized"
    /\ UNCHANGED <<first, text, decoded, pass>>
    /\ UNCHANGED <<enginevars, ctorvars>>

NextPrep ==
    \/ PrepareText
    \/ Unidecode
    \/ NumberPass
    \/ ExpandAbbreviations
    \/ CollapseWhitespace
    \/ Tokenize

SpecPrep == InitPrep /\ [][NextPrep]_vars

(***************************************************************************)
(* tts_runner.__init__ (glados.py lines 28-57).  The files under           *)
(* models_dir are absent, present but not loadable, or good; the two       *)
(* torch availability probes answer as the machine has it.                 *)
(***************************************************************************)

\* for i in range(2)
WarmupPasses == 2

emb_filename(use_p1) == IF use_p1 THEN "glados_p1.pt" ELSE "glados_p2.pt"

emb_path(use_p1) == IF use_p1 THEN "emb/glados_p1.pt" ELSE "emb/glados_p2.pt"

\* The parameters of prepare_text in order, and those with a default.
prepare_text_params ==
    <<"text", "models_dir", "device", "cleaner_name", "use_phonemes", "lang">>

prepare_text_defaults == {"cleaner_name", "use_phonemes", "lang"}

\* The positional arguments of the call of prepare_text at line 53.
warmup_call == <<"str(i)", "self.models_dir">>

\* Python binds a call of positional arguments when there are no more of
\* them than parameters and every parameter left over has a default; else
\* the call raises TypeError before the function body runs.
Binds(call) ==
    /\ Len(call) <= Len(prepare_text_params)
    /\ \A k \in 1..Len(prepare_text_params) :
          k <= Len(call) \/ prepare_text_params[k] \in prepare_text_defaults

\* The constructor raises e.
CtorRaise(e) == cpc' = "raised" /\ exc' = e

\* What a step of __init__ leaves alone besides self and its own position.
CtorFrame ==
    UNCHANGED <<loop, pc, sentences, delay, idx, audio, old_line, new_line,
                old_time, old_dur, new_dur, time_left, now, raised, played,
                synths, sleeps, paces, printed, tokvars, files, probes, args>>

InitCtor ==
    /\ self = <<>>
    /\ loop = "none"
    /\ EngineIdle
    /\ TokOff
    /\ files \in [Files -> Conditions]
    /\ probes \in [cuda : BOOLEAN, vulkan : BOOLEAN]
    /\ args \in [use_p1 : BOOLEAN, log : BOOLEAN]
    /\ cpc = "emb"
    /\ warm = 0
    /\ exc = "none"

\* Lines 29-35: the log flag, then the embedding of the chosen variant.
CtorEmb ==
    /\ cpc = "emb"
    /\ LET condition == files[emb_path(args.use_p1)]
       IN  IF condition = "good"
           THEN /\ self' = [log |-> args.log, emb |-> emb_filename(args.use_p1)]
                /\ cpc' = "device"
                /\ exc' = exc
           ELSE /\ self' = [log |-> args.log]
                /\ CtorRaise(IF condition = "absent" THEN "FileNotFoundError"
                             ELSE "LoadError")
    /\ UNCHANGED <<warm, loads>>
    /\ CtorFrame

\* Lines 37-42.
CtorDevice ==
    /\ cpc = "device"
    /\ self' = [log |-> self.log, emb |-> self.emb,
                device |-> IF probes.cuda THEN "cuda"
                           ELSE IF probes.vulkan THEN "vulkan" ELSE "cpu"]
    /\ cpc' = "glados"
    /\ UNCHANGED <<warm, loads, exc>>
    /\ CtorFrame

\* Line 45: torch.jit.load raises on a file that is absent or not loadable.
CtorGlados ==
    /\ cpc = "glados"
    /\ IF files["glados-new.pt"] = "good"
       THEN /\ self' = [log |-> self.log, emb |-> self.emb, device |-> self.device,
                        glados |-> "glados-new.pt"]
            /\ cpc' = "vocoder"
            /\ exc' = exc
       ELSE self' = self /\ CtorRaise("LoadError")
    /\ UNCHANGED <<warm, loads>>
    /\ CtorFrame

\* Lines 46-49.
CtorVocoder ==
    /\ cpc = "vocoder"
    /\ IF files["vocoder-gpu.pt"] = "good"
       THEN /\ self' = [log |-> self.log, emb |-> self.emb, device |-> self.device,
                        glados |-> self.glados, vocoder |-> "vocoder-gpu.pt"]
            /\ cpc' = "warmup"
            /\ exc' = exc
       ELSE self' = self /\ CtorRaise("LoadError")
    /\ UNCHANGED <<warm, loads>>
    /\ CtorFrame

\* Lines 52-57, one pass of the loop.  The argument of generate_jit is
\* evaluated first: prepare_text is called with the arguments of line 53.
\* Once bound, prepare_text builds a Cleaner with use_phonemes left True,
\* which loads the phonemizer checkpoint (cleaners.py lines 133-145); the
\* mel model and the vocoder then run on the tokens.
CtorWarmup ==
    /\ cpc = "warmup"
    /\ IF ~Binds(warmup_call)
       THEN CtorRaise("TypeError") /\ UNCHANGED <<warm, loads>>
       ELSE IF files["en_us_cmudict_ipa_forward.pt"] # "good"
       THEN /\ CtorRaise(IF files["en_us_cmudict_ipa_forward.pt"] = "absent"
                         THEN "FileNotFoundError" ELSE "LoadError")
            /\ UNCHANGED <<warm, loads>>
       ELSE /\ loads' = loads + 1
            /\ warm' = warm + 1
            /\ cpc' = IF warm + 1 = WarmupPasses THEN "returned" ELSE "warmup"
            /\ exc' = exc
    /\ self' = self
    /\ CtorFrame

NextCtor == CtorEmb \/ CtorDevice \/ CtorGlados \/ CtorVocoder \/ CtorWarmup

SpecCtor == InitCtor /\ [][NextCtor]_vars

(***************************************************************************)
(* Properties of the pacing engine.                                        *)
(***************************************************************************)

RECURSIVE SumDur(_)
\* Total duration of the segments of a sequence of playbacks.
SumDur(ps) == IF ps = <<>> THEN 0 ELSE ps[1].line.dur + SumDur(Tail(ps))

\* The playback carries the audio synthesized from sentence k (behind a lead
\* silence, for the first one) and nothing of another sentence.
Carries(p, k) ==
    /\ \E i \in 1..Len(p.line.src) : p.line.src[i] = k
    /\ \A i \in 1..Len(p.line.src) : p.line.src[i] \in {k, Silence}

\* speak() has ended, by returning or by raising.
Ended == pc \in {"returned", "raised"}

\* Every sentence of the utterance was synthesized successfully.
AllSynthesized ==
    /\ Len(synths) = Len(sentences)
    /\ \A i \in 1..Len(synths) : synths[i].end >= 0

\* C1: whenever the budget check of a sentence idx >= 1 finds the previous
\* sentence's remaining playback time zero or negative, whatever the log flag,
\* no negative sleep is requested, nothing is raised, a fall-behind event is
\* recorded, and the engine goes on to launch the sentence.
C1_FallBehindIsHarmless ==
    [][(pc = "pace" /\ TimeLeft <= 0) =>
          /\ \A i \in 1..Len(sleeps') : sleeps'[i] >= 0
          /\ raised' = "none"
          /\ printed' = Append(printed, SlowerThanRealtime)
          /\ pc' = "launch"]_vars

\* C2: when speak() has ended on an utterance of N >= 1 sentences whose
\* syntheses all succeeded, exactly N playbacks were launched, the k-th of
\* them carrying sentence k.
C2_PlaybacksInOrder ==
    (Ended /\ Len(sentences) >= 1 /\ AllSynthesized) =>
        /\ Len(played) = Len(sentences)
        /\ \A k \in 1..Len(played) : Carries(played[k], sentences[k])

\* C3 (as stated): when speak() returns, the time since the first playback
\* launch is at least the sum of the N audio durations plus N-1 pauses.
C3_ElapsedCoversPauses ==
    pc = "returned" =>
        now - played[1].at >= SumDur(played) + (Len(sentences) - 1) * delay

\* The sentence boundaries at which the budget check found time left.
OnTime == {i \in 1..Len(paces) : paces[i] > 0}

\* C3 (amended): when speak() returns, the time since the first playback
\* launch is at least the sum of the N audio durations plus one pause for
\* every boundary at which the previous sentence still had playback time left.
C3_ElapsedCoversDurations ==
    pc = "returned" =>
        now - played[1].at >= SumDur(played) + Cardinality(OnTime) * delay

\* A three-sentence call has returned after falling behind at one boundary
\* and being on time at the other.
C3_Witness ==
    /\ pc = "returned"
    /\ Len(played) = 3
    /\ delay > 0
    /\ Cardinality(OnTime) = 1

\* C4: when speak() returns, the last segment's full duration has elapsed
\* since its playback was launched.
C4_ReturnsAfterLastSegment ==
    pc = "returned" =>
        now - played[Len(played)].at >= played[Len(played)].line.dur

\* A call of several sentences has returned without a final sleep: writing
\* output.wav outlasted the last segment.
C4_Witness ==
    /\ pc = "returned"
    /\ Len(played) >= 2
    /\ time_left < 0

\* C5: the run_tts calls of a speak() call do not overlap (each starts after
\* the previous one returned, and at most one is unfinished), and no playback
\* is launched before the previous segment's full duration has elapsed since
\* its own launch.
C5_OneSynthesisOnePlayback ==
    /\ Cardinality({i \in 1..Len(synths) : synths[i].end < 0}) <= 1
    /\ \A i \in 1..(Len(synths) - 1) :
          synths[i].end >= 0 /\ synths[i + 1].begin >= synths[i].end
    /\ \A i \in 1..(Len(played) - 1) :
          played[i + 1].at >= played[i].at + played[i].line.dur

\* Three playbacks were launched, one after a wait and one after falling
\* behind, and the synthesis of a later sentence ran during a playback.
C5_Witness ==
    /\ Len(played) = 3
    /\ \E i \in 1..Len(paces) : paces[i] > 0
    /\ \E i \in 1..Len(paces) : paces[i] <= 0
    /\ \E i \in 2..Len(synths) :
          synths[i].begin < played[i - 1].at + played[i - 1].line.dur

\* The state of a speak() call right after it was entered.
JustEntered ==
    /\ pc \in {"run_tts", "raised"}
    /\ idx = 0 /\ now = 0 /\ old_time = 0 /\ old_dur = 0 /\ new_dur = 0
    /\ audio = NoLine /\ old_line = NoLine /\ new_line = NoLine
    /\ played = <<>> /\ synths = <<>> /\ sleeps = <<>> /\ paces = <<>>
    /\ printed = <<>>
    /\ raised \in {"none", "IndexError"}

\* C6: a synthesis failure at sentence k ends speak() with that exception:
\* the failing step launches no playback and requests no sleep, only the
\* sentences before k have been played, nothing more happens in that call, the
\* engine object is never changed, and the next call starts from the same
\* state as a first call.
C6_FailurePropagates ==
    [][/\ self' = self
       /\ (raised' = "SynthesisFailure") =>
             /\ pc' = "raised"
             /\ played' = played
             /\ sleeps' = sleeps
             /\ Len(played') = idx'
             /\ \A i \in 1..Len(played') : Carries(played'[i], i - 1)
       /\ (raised = "SynthesisFailure" /\ raised' # "SynthesisFailure") =>
             JustEntered']_vars

\* Synthesis of the third sentence failed after two playbacks.
C6_Witness ==
    /\ raised = "SynthesisFailure"
    /\ idx = 2
    /\ Len(played) = 2

\* C7: after an iteration of the interactive loop in which speak() failed,
\* the loop goes back to reading input.
C7_LoopSurvivesFailure ==
    [][(loop = "speak" /\ pc = "raised") => loop' = "input"]_vars

\* C8: one engine loads the phonemizer checkpoint at most once.
C8_PhonemizerLoadedOnce == loads <= 1

(***************************************************************************)
(* Properties of the vocabulary and the tokenizer.                         *)
(***************************************************************************)

\* The character c is a symbol of the vocabulary.
InVocabulary(c) == \E i \in 1..Len(phonemes) : phonemes[i] = <<c>>

RECURSIVE Kept(_)
\* The string s without the characters that are not vocabulary symbols.
Kept(s) ==
    IF s = <<>> THEN <<>>
    ELSE (IF InVocabulary(Head(s)) THEN <<Head(s)>> ELSE <<>>) \o Kept(Tail(s))

\* C9: throughout the life of a tokenizer, the symbols of the vocabulary are
\* pairwise distinct, symbol_to_id and
\* id_to_symbol are inverse bijections between the symbols and the indices
\* 0..len(phonemes)-1, and index 0, and no other, holds the padding symbol.
C9_VocabularyBijective ==
    tpc # "off" =>
    /\ \A i, j \in 1..Len(phonemes) : phonemes[i] = phonemes[j] => i = j
    /\ DOMAIN id_to_symbol = 0..(Len(phonemes) - 1)
    /\ DOMAIN symbol_to_id = {phonemes[i] : i \in 1..Len(phonemes)}
    /\ \A i \in DOMAIN id_to_symbol : symbol_to_id[id_to_symbol[i]] = i
    /\ \A s \in DOMAIN symbol_to_id : id_to_symbol[symbol_to_id[s]] = s
    /\ \A i \in DOMAIN id_to_symbol : id_to_symbol[i] = pad <=> i = 0

\* C10: every ID that encoding produces is an index of the vocabulary;
\* decoding the IDs of a string gives the string without its out-of-vocabulary
\* characters, the others in their order; and a second round trip returns
\* the result of the first unchanged.
C10_RoundTripFilters ==
    /\ tpc \in {"tokens", "decoded"} =>
          \A i \in 1..Len(tokens) : tokens[i] \in 0..(Len(phonemes) - 1)
    /\ tpc = "decoded" => decoded = Kept(text)
    /\ (tpc = "decoded" /\ pass = 2) => decoded = text /\ decoded = Kept(first)

\* The second round trip of a string that lost a character and kept others,
\* among them one whose symbol the vocabulary lists more than once.
C10_Witness ==
    /\ tpc = "decoded"
    /\ pass = 2
    /\ 0 < Len(decoded)
    /\ Len(decoded) < Len(first)
    /\ \E i \in 1..Len(decoded) : decoded[i] = 8230

(***************************************************************************)
(* Properties of number normalization.                                     *)
(***************************************************************************)

\* The amount after the '$', and the amount without its thousands commas.
Amount == Tail(first)
Stripped == Without(Amount, ",")

\* The amount reaches up to a digit, so that the whole of it is read.
WellFormed == Amount # <<>> /\ Amount[Len(Amount)] \in Digits

DecimalPoints == Cardinality({k \in 1..Len(Amount) : Amount[k] = "."})

\* The position of the decimal point of an amount that has one, else 0.
PointAt == LastIn(Stripped, 1, Len(Stripped), {"."})

\* The whole part d and the cents part c of an amount with at most one
\* decimal point; a part that is absent counts 0.
WholePart ==
    IF PointAt = 0 THEN ToInt(Stripped) ELSE ToInt(SubSeq(Stripped, 1, PointAt - 1))

CentsPart ==
    IF PointAt = 0 THEN 0 ELSE ToInt(SubSeq(Stripped, PointAt + 1, Len(Stripped)))

\* n in words with its unit, the unit singular exactly for 1.
Named(n, unit) ==
    number_to_words(n, <<>>) \o <<" ">> \o unit \o (IF n = 1 THEN <<>> ELSE <<"s">>)

\* The wording of the amount: d dollars and c cents, by the four cases.
Spoken ==
    IF WholePart # 0 /\ CentsPart # 0
    THEN Named(WholePart, <<"d", "o", "l", "l", "a", "r">>) \o <<",", " ">> \o Named(CentsPart, <<"c", "e", "n", "t">>)
    ELSE IF WholePart # 0 THEN Named(WholePart, <<"d", "o", "l", "l", "a", "r">>)
    ELSE IF CentsPart # 0 THEN Named(CentsPart, <<"c", "e", "n", "t">>)
    ELSE <<"z", "e", "r", "o", " ", "d", "o", "l", "l", "a", "r", "s">>

HasPoint(t) == \E k \in 1..(Len(t) - 4) : SubSeq(t, k, k + 4) = <<"p", "o", "i", "n", "t">>

Required ==
    {emb_path(args.use_p1), "glados-new.pt", "vocoder-gpu.pt",
     "en_us_cmudict_ipa_forward.pt"}

\* C12: when the speaker embedding, the mel model, the vocoder and the
\* phonemizer checkpoint are all present and load, the constructor does not
\* raise, and once it has returned both warm-up passes have run and self
\* holds the log flag, the embedding, the device and both models.
C12_ConstructionCompletes ==
    (cpc # "off" /\ \A f \in Required : files[f] = "good") =>
        /\ cpc # "raised"
        /\ cpc = "returned" =>
              /\ warm = WarmupPasses
              /\ DOMAIN self = {"log", "emb", "device", "glados", "vocoder"}

(***************************************************************************)
(* Properties of prepare_text.                                             *)
(***************************************************************************)

TerminalMarks == {".", "?", "!"}

\* C13: for every non-empty text, the cleaned string that prepare_text hands
\* to the tokenizer ends in '.', '?' or '!'.
C13_TerminalMarkSurvives ==
    (tpc \in {"cleaned", "tokenized"} /\ first # <<>>) =>
        text # <<>> /\ text[Len(text)] \in TerminalMarks

====
